---- MODULE Spec2Model ----
(***************************************************************************)
(* Model of the Bharat STT API (src/main.py): the process-wide Whisper     *)
(* model handle, the language registry, the temporary files on storage     *)
(* and the POST /api/stt handler speech_to_text, one step per statement,   *)
(* run as coroutines of a single event loop.                               *)
(***************************************************************************)
EXTENDS Integers, Sequences, FiniteSets, TLC

(* ---------------------------- bounds ----------------------------------- *)
\* number of POST /api/stt requests the process handles
NReq == 2
\* number of distinct names the temporary-file name generator can produce
NNames == 3

Requests == 1..NReq
Names == 1..NNames

(* ------------------------ program constants ---------------------------- *)
\* the module-level variable model after the load at import time
Ready == "whisper-base"
None == "None"

SUPPORTED_LANGUAGES ==
    [c \in {"hi", "en", "ta", "te", "mr", "bn", "gu", "kn", "ml", "pa"} |->
        CASE c = "hi" -> "Hindi"
          [] c = "en" -> "English"
          [] c = "ta" -> "Tamil"
          [] c = "te" -> "Telugu"
          [] c = "mr" -> "Marathi"
          [] c = "bn" -> "Bengali"
          [] c = "gu" -> "Gujarati"
          [] c = "kn" -> "Kannada"
          [] c = "ml" -> "Malayalam"
          [] c = "pa" -> "Punjabi"]

\* list(SUPPORTED_LANGUAGES.keys()): a dict keeps insertion order
LanguageKeys == <<"hi", "en", "ta", "te", "mr", "bn", "gu", "kn", "ml", "pa">>

\* strings the handler inspects are sequences of one-character strings
allowed_formats ==
    << <<".", "m", "4", "a">>, <<".", "w", "a", "v">>, <<".", "m", "p", "3">>,
       <<".", "o", "g", "g">>, <<".", "f", "l", "a", "c">> >>

Range(s) == {s[i] : i \in 1..Len(s)}

(* --------------------------- pure helpers ------------------------------ *)
UpperLetters == <<"A","B","C","D","E","F","G","H","I","J","K","L","M",
                  "N","O","P","Q","R","S","T","U","V","W","X","Y","Z">>
LowerLetters == <<"a","b","c","d","e","f","g","h","i","j","k","l","m",
                  "n","o","p","q","r","s","t","u","v","w","x","y","z">>

LowerChar(c) ==
    IF \E i \in 1..26 : UpperLetters[i] = c
    THEN LowerLetters[CHOOSE i \in 1..26 : UpperLetters[i] = c]
    ELSE c

\* str.lower()
Lower(s) == [i \in 1..Len(s) |-> LowerChar(s[i])]

\* str.rfind(ch), 0-based, -1 when absent
RFind(p, ch) ==
    IF \E i \in 1..Len(p) : p[i] = ch
    THEN (CHOOSE i \in 1..Len(p) : p[i] = ch /\ \A j \in (i+1)..Len(p) : p[j] # ch) - 1
    ELSE -1

\* os.path.splitext(p)[1]: the text from the last dot of the last path
\* component on, unless that component has only dots before it
SplitExt(p) ==
    LET sepIndex == RFind(p, "/")
        dotIndex == RFind(p, ".")
    IN  IF dotIndex > sepIndex
           /\ \E k \in (sepIndex + 1)..(dotIndex - 1) : p[k + 1] # "."
        THEN SubSeq(p, dotIndex + 1, Len(p))
        ELSE <<>>

Whitespace == {" ", "\t", "\n", "\r", "\f"}

\* str.strip()
RECURSIVE LStrip(_)
LStrip(s) == IF s # <<>> /\ Head(s) \in Whitespace THEN LStrip(Tail(s)) ELSE s
RECURSIVE RStrip(_)
RStrip(s) ==
    IF s # <<>> /\ s[Len(s)] \in Whitespace THEN RStrip(SubSeq(s, 1, Len(s) - 1)) ELSE s
Strip(s) == RStrip(LStrip(s))

(* ------------------------------ inputs --------------------------------- *)
\* language codes a client may send: the ten registered ones and others
LanguageInputs == DOMAIN SUPPORTED_LANGUAGES \cup {"xx", "HI", ""}

\* names of uploads; the multipart parser always hands the handler a string
FilenameInputs ==
    { <<"a", ".", "w", "a", "v">>,
      <<"a", ".", "W", "a", "V">>,
      <<"a", ".", "M", "4", "A">>,
      <<"a", ".", "m", "p", "3">>,
      <<"b", ".", "o", "g", "g">>,
      <<"d", "/", "c", ".", "F", "l", "a", "c">>,
      <<"a", ".", "t", "x", "t">>,
      <<"a", ".", "w", "a", "v", ".", "t", "x", "t">>,
      <<"a", ".", "w", "a", "v", "/", "b">>,
      <<".", "w", "a", "v">>,
      <<"w", "a", "v">>,
      <<"a", ".">>,
      <<>> }

\* the representative inputs of the requests that run concurrently
SampleLanguages == {"en", "xx"}
SampleFilenames == { <<"a", ".", "W", "a", "V">>, <<"a", ".", "t", "x", "t">> }

\* result["text"] values the model may return
ModelTexts ==
    { <<" ", "o", " ", "k", "\n">>, <<"o", "k">>, <<" ", "\t">>, <<>> }

\* str(e) of what model.transcribe may raise
ModelErrors == {"Failed to load audio", "CUDA out of memory"}
\* str(e) of what the temporary file and the upload may raise
StagingErrors == {"No space left on device"}
NoExc == "<no exception>"

(* ----------------------------- responses ------------------------------- *)
NoResponse == [status |-> 0]
\* raise HTTPException(status_code, detail): the framework's structured error
HTTPException(code, detail) ==
    [status |-> code, handled |-> TRUE, body |-> [detail |-> detail]]
JSONResponse(content) == [status |-> 200, handled |-> TRUE, body |-> content]
\* an exception that leaves the handler and is not an HTTPException
Unhandled(name) == [status |-> 500, handled |-> FALSE, body |-> name]

NoFile == [owner |-> 0, data |-> 0, closed |-> FALSE]
NoResult == [returned |-> FALSE, text |-> <<>>]

VARIABLES
    model,          \* the global model: Ready or None
    fs,             \* storage: name -> the temporary file of that name
    running,        \* the request whose coroutine holds the event loop, or 0
    pc,             \* per request: the statement it is at
    language,       \* per request: the form field language
    filename,       \* per request: audio.filename
    file_ext,       \* per request: the local file_ext
    temp_file,      \* per request: the local temp_file (0 is None)
    temp_path,      \* per request: the local temp_path (0 is unbound)
    content,        \* per request: the local content (0 is unbound)
    result,         \* per request: what model.transcribe returned
    exc,            \* per request: str(e) of the exception caught at line 149
    pending,        \* per request: the return value or exception in flight
    response,       \* per request: what the client receives
    modelCalls,     \* per request: number of calls of model.transcribe
    removeCalls,    \* per request: number of calls of os.remove
    removeFailed,   \* per request: os.remove raised
    auxResponse     \* the last response of GET /, /health or /api/languages

vars == <<model, fs, running, pc, language, filename, file_ext, temp_file,
          temp_path, content, result, exc, pending, response, modelCalls,
          removeCalls, removeFailed, auxResponse>>

locals == <<language, filename, file_ext, temp_file, temp_path, content,
            result, exc, pending, response, modelCalls, removeCalls,
            removeFailed>>

Init ==
    /\ model \in {Ready, None}
    /\ fs = [n \in Names |-> NoFile]
    /\ running = 0
    /\ pc = [r \in Requests |-> "idle"]
    /\ language = [r \in Requests |-> ""]
    /\ filename = [r \in Requests |-> <<>>]
    /\ file_ext = [r \in Requests |-> <<>>]
    /\ temp_file = [r \in Requests |-> 0]
    /\ temp_path = [r \in Requests |-> 0]
    /\ content = [r \in Requests |-> 0]
    /\ result = [r \in Requests |-> NoResult]
    /\ exc = [r \in Requests |-> NoExc]
    /\ pending = [r \in Requests |-> NoResponse]
    /\ response = [r \in Requests |-> NoResponse]
    /\ modelCalls = [r \in Requests |-> 0]
    /\ removeCalls = [r \in Requests |-> 0]
    /\ removeFailed = [r \in Requests |-> FALSE]
    /\ auxResponse = [endpoint |-> "none"]

(* ------------------------- auxiliary endpoints ------------------------- *)
\* GET /
root ==
    /\ running = 0
    /\ auxResponse' = [endpoint |-> "/", status |-> 200, body_status |-> "active"]
    /\ UNCHANGED <<model, fs, running, pc, locals>>

\* GET /health
health_check ==
    /\ running = 0
    /\ auxResponse' = [endpoint |-> "/health", status |-> 200,
                       model_loaded |-> (model # None)]
    /\ UNCHANGED <<model, fs, running, pc, locals>>

\* GET /api/languages
get_languages ==
    /\ running = 0
    /\ auxResponse' = [endpoint |-> "/api/languages", status |-> 200,
                       supported_languages |-> SUPPORTED_LANGUAGES,
                       total |-> Cardinality(DOMAIN SUPPORTED_LANGUAGES)]
    /\ UNCHANGED <<model, fs, running, pc, locals>>

(* --------------------------- POST /api/stt ----------------------------- *)
\* an exception raised outside the try statement ends the handler at once
Raise(r, e) ==
    /\ response' = [response EXCEPT ![r] = e]
    /\ pc' = [pc EXCEPT ![r] = "done"]
    /\ running' = 0

Goto(r, label) ==
    /\ pc' = [pc EXCEPT ![r] = label]
    /\ UNCHANGED running

\* the event loop starts the coroutine of a request with its form fields
Receive(r, languages, filenames) ==
    /\ running = 0
    /\ pc[r] = "idle"
    /\ \E l \in languages, f \in filenames :
         /\ language' = [language EXCEPT ![r] = l]
         /\ filename' = [filename EXCEPT ![r] = f]
    /\ pc' = [pc EXCEPT ![r] = "check_model"]
    /\ running' = r
    /\ UNCHANGED <<model, fs, file_ext, temp_file, temp_path, content, result,
                   exc, pending, response, modelCalls, removeCalls,
                   removeFailed, auxResponse>>

\* a plausible slip: the handler goes on without looking at the model
CheckModelSkipped(r) ==
    /\ running = r
    /\ pc[r] = "check_model"
    /\ Goto(r, "check_language")
    /\ UNCHANGED <<model, fs, locals, auxResponse>>

\* a plausible slip: a request that finds no model loads it
CheckModelReload(r) ==
    /\ running = r
    /\ pc[r] = "check_model"
    /\ model' = Ready
    /\ Goto(r, "check_language")
    /\ UNCHANGED <<fs, locals, auxResponse>>

\* if model is None: raise HTTPException(503)
CheckModel(r) ==
    /\ running = r
    /\ pc[r] = "check_model"
    /\ IF model = None
       THEN Raise(r, HTTPException(503, <<"Model not loaded. Server starting...">>))
       ELSE Goto(r, "check_language") /\ UNCHANGED response
    /\ UNCHANGED <<model, fs, language, filename, file_ext, temp_file,
                   temp_path, content, result, exc, pending, modelCalls,
                   removeCalls, removeFailed, auxResponse>>

\* a plausible slip: only a missing code is rejected
CheckLanguageNonEmpty(r) ==
    /\ running = r
    /\ pc[r] = "check_language"
    /\ IF language[r] = ""
       THEN Raise(r, HTTPException(400,
                <<"Language '", language[r], "' not supported. Use: ", LanguageKeys>>))
       ELSE Goto(r, "check_format") /\ UNCHANGED response
    /\ UNCHANGED <<model, fs, language, filename, file_ext, temp_file,
                   temp_path, content, result, exc, pending, modelCalls,
                   removeCalls, removeFailed, auxResponse>>

\* if language not in SUPPORTED_LANGUAGES: raise HTTPException(400)
CheckLanguage(r) ==
    /\ running = r
    /\ pc[r] = "check_language"
    /\ IF language[r] \notin DOMAIN SUPPORTED_LANGUAGES
       THEN Raise(r, HTTPException(400,
                <<"Language '", language[r], "' not supported. Use: ", LanguageKeys>>))
       ELSE Goto(r, "check_format") /\ UNCHANGED response
    /\ UNCHANGED <<model, fs, language, filename, file_ext, temp_file,
                   temp_path, content, result, exc, pending, modelCalls,
                   removeCalls, removeFailed, auxResponse>>

\* a plausible slip: the extension is compared as sent
FileExtAsSent(name) == SplitExt(name)
\* os.path.splitext(audio.filename)[1].lower()
FileExt(name) == Lower(SplitExt(name))

\* file_ext = ...; if file_ext not in allowed_formats: raise HTTPException(400)
\* else temp_file = None
CheckFormat(r) ==
    /\ running = r
    /\ pc[r] = "check_format"
    /\ file_ext' = [file_ext EXCEPT ![r] = FileExt(filename[r])]
    /\ IF file_ext'[r] \notin Range(allowed_formats)
       THEN /\ Raise(r, HTTPException(400, <<"Invalid format. Allowed: ", allowed_formats>>))
            /\ UNCHANGED temp_file
       ELSE /\ Goto(r, "create_temp")
            /\ temp_file' = [temp_file EXCEPT ![r] = 0]
            /\ UNCHANGED response
    /\ UNCHANGED <<model, fs, language, filename, temp_path, content, result,
                   exc, pending, modelCalls, removeCalls, removeFailed,
                   auxResponse>>

\* a plausible slip: a name is taken without the exclusive-create check
AnyNames(files) == Names
\* the names mkstemp can still create: O_EXCL refuses a name that exists
FreshNames(files) == {n \in Names : files[n].owner = 0}

\* with tempfile.NamedTemporaryFile(delete=False, suffix=file_ext) as temp_file
CreateTemp(r) ==
    /\ running = r
    /\ pc[r] = "create_temp"
    /\ \/ \E n \in FreshNames(fs) :
            /\ fs' = [fs EXCEPT ![n] = [owner |-> r, data |-> 0, closed |-> FALSE]]
            /\ temp_file' = [temp_file EXCEPT ![r] = n]
            /\ Goto(r, "await_read")
            /\ UNCHANGED exc
       \/ \E e \in StagingErrors :
            /\ exc' = [exc EXCEPT ![r] = e]
            /\ Goto(r, "except")
            /\ UNCHANGED <<fs, temp_file>>
    /\ UNCHANGED <<model, language, filename, file_ext, temp_path, content,
                   result, pending, response, modelCalls, removeCalls,
                   removeFailed, auxResponse>>

\* content = await audio.read(): the coroutine gives up the event loop
AwaitRead(r) ==
    /\ running = r
    /\ pc[r] = "await_read"
    /\ pc' = [pc EXCEPT ![r] = "reading"]
    /\ running' = 0
    /\ UNCHANGED <<model, fs, locals, auxResponse>>

\* the read completes (or raises, and the with statement closes the file)
ReadReturn(r) ==
    /\ running = 0
    /\ pc[r] = "reading"
    /\ running' = r
    /\ \/ /\ content' = [content EXCEPT ![r] = r]
          /\ pc' = [pc EXCEPT ![r] = "write"]
          /\ UNCHANGED <<fs, exc>>
       \/ \E e \in StagingErrors :
            /\ exc' = [exc EXCEPT ![r] = e]
            /\ fs' = [fs EXCEPT ![temp_file[r]].closed = TRUE]
            /\ pc' = [pc EXCEPT ![r] = "except"]
            /\ UNCHANGED content
    /\ UNCHANGED <<model, language, filename, file_ext, temp_file, temp_path,
                   result, pending, response, modelCalls, removeCalls,
                   removeFailed, auxResponse>>

\* temp_file.write(content); temp_path = temp_file.name
Write(r) ==
    /\ running = r
    /\ pc[r] = "write"
    /\ \/ /\ fs' = [fs EXCEPT ![temp_file[r]].data = content[r]]
          /\ temp_path' = [temp_path EXCEPT ![r] = temp_file[r]]
          /\ Goto(r, "close")
          /\ UNCHANGED exc
       \/ \E e \in StagingErrors :
            /\ exc' = [exc EXCEPT ![r] = e]
            /\ fs' = [fs EXCEPT ![temp_file[r]].closed = TRUE]
            /\ Goto(r, "except")
            /\ UNCHANGED temp_path
    /\ UNCHANGED <<model, language, filename, file_ext, temp_file, content,
                   result, pending, response, modelCalls, removeCalls,
                   removeFailed, auxResponse>>

\* a plausible slip: the model is called inside the with statement, the
\* file still open
CloseTempDeferred(r) ==
    /\ running = r
    /\ pc[r] = "close"
    /\ Goto(r, "transcribe")
    /\ UNCHANGED <<model, fs, locals, auxResponse>>

\* the end of the with statement closes the file; the flush may fail
CloseTemp(r) ==
    /\ running = r
    /\ pc[r] = "close"
    /\ fs' = [fs EXCEPT ![temp_file[r]].closed = TRUE]
    /\ \/ Goto(r, "transcribe") /\ UNCHANGED exc
       \/ \E e \in StagingErrors :
            /\ exc' = [exc EXCEPT ![r] = e]
            /\ Goto(r, "except")
    /\ UNCHANGED <<model, language, filename, file_ext, temp_file, temp_path,
                   content, result, pending, response, modelCalls, removeCalls,
                   removeFailed, auxResponse>>

\* a plausible slip: the call is handed to a worker thread and awaited
TranscribeCallInThread(r) ==
    /\ running = r
    /\ pc[r] = "transcribe"
    /\ modelCalls' = [modelCalls EXCEPT ![r] = @ + 1]
    /\ pc' = [pc EXCEPT ![r] = "in_model"]
    /\ running' = 0
    /\ UNCHANGED <<model, fs, language, filename, file_ext, temp_file,
                   temp_path, content, result, exc, pending, response,
                   removeCalls, removeFailed, auxResponse>>

\* result = model.transcribe(temp_path, language=language, ...): the call
TranscribeCall(r) ==
    /\ running = r
    /\ pc[r] = "transcribe"
    /\ modelCalls' = [modelCalls EXCEPT ![r] = @ + 1]
    /\ Goto(r, "in_model")
    /\ UNCHANGED <<model, fs, language, filename, file_ext, temp_file,
                   temp_path, content, result, exc, pending, response,
                   removeCalls, removeFailed, auxResponse>>

\* model.transcribe returns a result or raises
TranscribeReturn(r) ==
    /\ running = r
    /\ pc[r] = "in_model"
    /\ \/ \E t \in ModelTexts :
            /\ result' = [result EXCEPT ![r] = [returned |-> TRUE, text |-> t]]
            /\ Goto(r, "build")
            /\ UNCHANGED exc
       \/ \E e \in ModelErrors :
            /\ exc' = [exc EXCEPT ![r] = e]
            /\ Goto(r, "except")
            /\ UNCHANGED result
    /\ UNCHANGED <<model, fs, language, filename, file_ext, temp_file,
                   temp_path, content, pending, response, modelCalls,
                   removeCalls, removeFailed, auxResponse>>

\* a plausible slip: the text is passed on as the model gave it
TranscribedTextRaw(res) == res.text
\* transcribed_text = result["text"].strip()
TranscribedText(res) == Strip(res.text)

\* return JSONResponse({...}): the value is held while finally runs
BuildResponse(r) ==
    /\ running = r
    /\ pc[r] = "build"
    /\ pending' = [pending EXCEPT ![r] = JSONResponse(
                      [success |-> TRUE,
                       text |-> TranscribedText(result[r]),
                       language |-> language[r],
                       language_name |-> SUPPORTED_LANGUAGES[language[r]],
                       filename |-> filename[r]])]
    /\ Goto(r, "finally")
    /\ UNCHANGED <<model, fs, language, filename, file_ext, temp_file,
                   temp_path, content, result, exc, response, modelCalls,
                   removeCalls, removeFailed, auxResponse>>

\* a plausible slip: the 500 does not carry the cause
TranscriptionFailedBare(e) == HTTPException(500, <<"Transcription failed">>)
\* HTTPException(status_code=500, detail=f"Transcription failed: {str(e)}")
TranscriptionFailed(e) == HTTPException(500, <<"Transcription failed: ", e>>)

\* a plausible slip: a failed model call is tried once more
ExceptRetry(r) ==
    /\ running = r
    /\ pc[r] = "except"
    /\ IF exc[r] \in ModelErrors /\ modelCalls[r] < 2
       THEN Goto(r, "transcribe") /\ UNCHANGED pending
       ELSE /\ pending' = [pending EXCEPT ![r] = TranscriptionFailed(exc[r])]
            /\ Goto(r, "finally")
    /\ UNCHANGED <<model, fs, language, filename, file_ext, temp_file,
                   temp_path, content, result, exc, response, modelCalls,
                   removeCalls, removeFailed, auxResponse>>

\* except Exception as e: raise HTTPException(500): held while finally runs
Except(r) ==
    /\ running = r
    /\ pc[r] = "except"
    /\ pending' = [pending EXCEPT ![r] = TranscriptionFailed(exc[r])]
    /\ Goto(r, "finally")
    /\ UNCHANGED <<model, fs, language, filename, file_ext, temp_file,
                   temp_path, content, result, exc, response, modelCalls,
                   removeCalls, removeFailed, auxResponse>>

\* a plausible slip: the cleanup sits on the success path only
FinallyOnSuccess(r) ==
    /\ running = r
    /\ pc[r] = "finally"
    /\ IF temp_file[r] = 0 \/ pending[r].status # 200
       THEN Goto(r, "exit")
       ELSE Goto(r, "remove")
    /\ UNCHANGED <<model, fs, locals, auxResponse>>

\* finally: if temp_file and os.path.exists(temp_path):
\* a file object is true; reading temp_path before line 124 ran raises
\* UnboundLocalError, which replaces the exception in flight
Finally(r) ==
    /\ running = r
    /\ pc[r] = "finally"
    /\ IF temp_file[r] = 0
       THEN Goto(r, "exit") /\ UNCHANGED pending
       ELSE IF temp_path[r] = 0
       THEN /\ pending' = [pending EXCEPT ![r] = Unhandled("UnboundLocalError")]
            /\ Goto(r, "exit")
       ELSE IF fs[temp_path[r]].owner # 0
       THEN Goto(r, "remove") /\ UNCHANGED pending
       ELSE Goto(r, "exit") /\ UNCHANGED pending
    /\ UNCHANGED <<model, fs, language, filename, file_ext, temp_file,
                   temp_path, content, result, exc, response, modelCalls,
                   removeCalls, removeFailed, auxResponse>>

\* a plausible slip: the failed os.remove is not caught
RemoveFailureRaised(r) ==
    /\ removeFailed' = [removeFailed EXCEPT ![r] = TRUE]
    /\ pending' = [pending EXCEPT ![r] = Unhandled("OSError")]
    /\ UNCHANGED fs

\* a failed os.remove, logged as a warning and swallowed
RemoveFailure(r) ==
    /\ removeFailed' = [removeFailed EXCEPT ![r] = TRUE]
    /\ UNCHANGED <<fs, pending>>

\* try: os.remove(temp_path) except Exception: logger.warning
Remove(r) ==
    /\ running = r
    /\ pc[r] = "remove"
    /\ removeCalls' = [removeCalls EXCEPT ![r] = @ + 1]
    /\ \/ /\ fs' = [fs EXCEPT ![temp_path[r]] = NoFile]
          /\ UNCHANGED <<removeFailed, pending>>
       \/ RemoveFailure(r)
    /\ Goto(r, "exit")
    /\ UNCHANGED <<model, language, filename, file_ext, temp_file, temp_path,
                   content, result, exc, response, modelCalls, auxResponse>>

\* the handler returns or raises what is in flight; the event loop is free
Exit(r) ==
    /\ running = r
    /\ pc[r] = "exit"
    /\ response' = [response EXCEPT ![r] = pending[r]]
    /\ pc' = [pc EXCEPT ![r] = "done"]
    /\ running' = 0
    /\ UNCHANGED <<model, fs, language, filename, file_ext, temp_file,
                   temp_path, content, result, exc, pending, modelCalls,
                   removeCalls, removeFailed, auxResponse>>

speech_to_text(r) ==
    \/ CheckModel(r)
    \/ CheckLanguage(r)
    \/ CheckFormat(r)
    \/ CreateTemp(r)
    \/ AwaitRead(r)
    \/ ReadReturn(r)
    \/ Write(r)
    \/ CloseTemp(r)
    \/ TranscribeCall(r)
    \/ TranscribeReturn(r)
    \/ BuildResponse(r)
    \/ Except(r)
    \/ Finally(r)
    \/ Remove(r)
    \/ Exit(r)

\* the process serving NReq requests that may overlap
Next ==
    \/ root
    \/ health_check
    \/ get_languages
    \/ \E r \in Requests : Receive(r, SampleLanguages, SampleFilenames)
    \/ \E r \in Requests : speech_to_text(r)

Spec == Init /\ [][Next]_vars

\* the process serving one request, over the whole input domain
NextOne ==
    \/ root
    \/ health_check
    \/ get_languages
    \/ Receive(1, LanguageInputs, FilenameInputs)
    \/ speech_to_text(1)

SpecOne == Init /\ [][NextOne]_vars

\* the steps of the handler that the event loop and the operating system
\* carry out once they can; the return of model.transcribe is not among
\* them, for nothing bounds the time of the call
HandlerStep(r) ==
    \/ CheckModel(r)
    \/ CheckLanguage(r)
    \/ CheckFormat(r)
    \/ CreateTemp(r)
    \/ AwaitRead(r)
    \/ ReadReturn(r)
    \/ Write(r)
    \/ CloseTemp(r)
    \/ TranscribeCall(r)
    \/ BuildResponse(r)
    \/ Except(r)
    \/ Finally(r)
    \/ Remove(r)
    \/ Exit(r)

\* the process serving one request under an event loop that runs every
\* coroutine that can run
FairSpec == SpecOne /\ WF_vars(HandlerStep(1))

(* ------------------------------ claims --------------------------------- *)
Done(r) == pc[r] = "done"
\* the temporary file request r created is on storage
OwnFileExists(r) == \E n \in Names : fs[n].owner = r
\* the statements between the creation of the temporary file and the exit
InTry == {"await_read", "reading", "write", "close", "transcribe", "in_model",
          "build", "except", "finally", "remove"}

\* C1 as stated: once a request whose staging succeeded (temp_path was
\* assigned) has ended, its temporary file is not on storage.
C1_StagedFileGone ==
    \A r \in Requests : Done(r) /\ temp_path[r] # 0 => ~OwnFileExists(r)

\* C1 amended: a request whose staging succeeded has, when it ends, called
\* os.remove exactly once, and its temporary file is on storage exactly
\* when that call failed.
C1_StagedFileRemovedUnlessRemoveFails ==
    \A r \in Requests :
        Done(r) /\ temp_path[r] # 0 =>
            /\ removeCalls[r] = 1
            /\ OwnFileExists(r) <=> removeFailed[r]

C1_Witness ==
    \E r \in Requests :
        /\ Done(r) /\ temp_path[r] # 0 /\ exc[r] \in ModelErrors
        /\ response[r].status = 500 /\ ~OwnFileExists(r)

\* C2: a request that created its temporary file but failed before temp_path
\* was assigned has, when it ends, deleted the file with exactly one call.
C2_PartialStagingCleanedOnce ==
    \A r \in Requests :
        Done(r) /\ temp_file[r] # 0 /\ temp_path[r] = 0 =>
            ~OwnFileExists(r) /\ removeCalls[r] = 1

\* C3: every request that has ended has a response the handler chose:
\* the 200, or a structured error of status 400, 500 or 503.
C3_EveryOutcomeHandled ==
    \A r \in Requests :
        Done(r) => response[r].handled /\ response[r].status \in {200, 400, 500, 503}

\* C4: with the model unavailable, /health reports model_loaded false, every
\* request ends with 503, and no request creates a file or calls the model.
C4_UnavailableModel ==
    model = None =>
        /\ auxResponse.endpoint = "/health" => auxResponse.model_loaded = FALSE
        /\ \A n \in Names : fs[n] = NoFile
        /\ \A r \in Requests :
            /\ temp_file[r] = 0 /\ modelCalls[r] = 0
            /\ pc[r] \in {"idle", "check_model", "done"}
            /\ Done(r) => /\ response[r].status = 503
                          /\ response[r].handled
                          /\ response[r].body.detail = <<"Model not loaded. Server starting...">>

C4_Witness ==
    /\ model = None
    /\ auxResponse.endpoint = "/health"
    /\ Done(1) /\ language[1] = "hi" /\ filename[1] = <<"a", ".", "w", "a", "v">>
    /\ response[1].status = 503

\* C5: with the model ready, a request whose language is not registered
\* never creates a file or calls the model and ends with the 400 that names
\* the language, whatever its filename.
C5_UnsupportedLanguage ==
    model = Ready =>
        \A r \in Requests :
            pc[r] # "idle" /\ language[r] \notin DOMAIN SUPPORTED_LANGUAGES =>
                /\ temp_file[r] = 0 /\ ~OwnFileExists(r) /\ modelCalls[r] = 0
                /\ pc[r] \in {"check_model", "check_language", "done"}
                /\ Done(r) => response[r] = HTTPException(400,
                      <<"Language '", language[r], "' not supported. Use: ", LanguageKeys>>)

C5_Witness ==
    /\ model = Ready /\ Done(1) /\ language[1] = "xx"
    /\ filename[1] = <<"a", ".", "w", "a", "v">>
    /\ response[1].status = 400

\* name ends in an allowed extension, in any letter case, that follows a
\* last path component with a character other than a dot in it
HasAllowedExtension(name) ==
    \E i \in 1..Len(allowed_formats) :
        LET e == allowed_formats[i]
            k == Len(name) - Len(e)
        IN  /\ k >= 1
            /\ Lower(SubSeq(name, k + 1, Len(name))) = e
            /\ \E j \in 1..k : /\ name[j] \notin {".", "/"}
                               /\ \A m \in j..k : name[m] # "/"

PastFormatCheck(r) ==
    pc[r] \notin {"idle", "check_model", "check_language", "check_format"}

\* C6: with the model ready and a registered language, a filename without
\* an allowed extension (letter case ignored) ends with the 400 that lists
\* the formats, no file created and no model call; a filename with one
\* passes the check.
C6_ExtensionCheck ==
    model = Ready =>
        \A r \in Requests :
            PastFormatCheck(r) /\ language[r] \in DOMAIN SUPPORTED_LANGUAGES =>
                IF HasAllowedExtension(filename[r])
                THEN ~(Done(r) /\ response[r].status = 400)
                ELSE /\ Done(r)
                     /\ response[r] = HTTPException(400,
                            <<"Invalid format. Allowed: ", allowed_formats>>)
                     /\ temp_file[r] = 0 /\ ~OwnFileExists(r) /\ modelCalls[r] = 0

C6_Witness ==
    /\ model = Ready /\ Done(1) /\ language[1] = "ta"
    /\ filename[1] = <<"a", ".", "w", "a", "v", ".", "t", "x", "t">>
    /\ response[1].status = 400

\* t is s without its leading and trailing whitespace
IsTrimOf(t, s) ==
    \E i \in 0..Len(s) :
        \E j \in 0..(Len(s) - i) :
            /\ t = SubSeq(s, i + 1, Len(s) - j)
            /\ \A k \in 1..i : s[k] \in Whitespace
            /\ \A k \in (Len(s) - j + 1)..Len(s) : s[k] \in Whitespace
            /\ t # <<>> => t[1] \notin Whitespace /\ t[Len(t)] \notin Whitespace

\* C7: a request whose model call returned ends with 200 and a body of
\* success true, its language, the registry's name of it, the uploaded
\* filename and the model's text trimmed.
C7_SuccessBody ==
    \A r \in Requests :
        Done(r) /\ result[r].returned =>
            /\ response[r].status = 200 /\ response[r].handled
            /\ response[r].body.success = TRUE
            /\ response[r].body.language = language[r]
            /\ language[r] \in DOMAIN SUPPORTED_LANGUAGES
            /\ response[r].body.language_name = SUPPORTED_LANGUAGES[language[r]]
            /\ response[r].body.filename = filename[r]
            /\ IsTrimOf(response[r].body.text, result[r].text)

C7_Witness ==
    /\ Done(1) /\ language[1] = "pa" /\ filename[1] = <<"a", ".", "M", "4", "A">>
    /\ result[1].text = <<" ", "o", " ", "k", "\n">>
    /\ response[1].status = 200
    /\ response[1].body.language_name = "Punjabi"
    /\ response[1].body.text = <<"o", " ", "k">>

\* C8: the model is called at most once per request, and a request whose
\* model call raised ends with the 500 that carries the error text, after
\* one call of the model and one call of os.remove.
C8_ModelFailure ==
    \A r \in Requests :
        /\ modelCalls[r] <= 1
        /\ Done(r) /\ exc[r] \in ModelErrors =>
              /\ response[r] = HTTPException(500, <<"Transcription failed: ", exc[r]>>)
              /\ modelCalls[r] = 1
              /\ removeCalls[r] = 1

C8_Witness ==
    \E r \in Requests :
        /\ Done(r) /\ exc[r] = "CUDA out of memory"
        /\ response[r].status = 500 /\ removeCalls[r] = 1

\* the outcome a request reached before its cleanup
OutcomeBeforeCleanup(r) ==
    IF result[r].returned
    THEN JSONResponse([success |-> TRUE, text |-> Strip(result[r].text),
                       language |-> language[r],
                       language_name |-> SUPPORTED_LANGUAGES[language[r]],
                       filename |-> filename[r]])
    ELSE HTTPException(500, <<"Transcription failed: ", exc[r]>>)

\* C9: after a failed os.remove the request still carries, and ends with,
\* the outcome it had reached: the same 200 or the same 500.
C9_RemoveFailureSwallowed ==
    \A r \in Requests :
        removeFailed[r] =>
            /\ pending[r] = OutcomeBeforeCleanup(r)
            /\ Done(r) => response[r] = OutcomeBeforeCleanup(r)

C9_Witness ==
    \E r \in Requests :
        /\ Done(r) /\ removeFailed[r] /\ response[r].status = 200
        /\ OwnFileExists(r)

\* C10: while a request is between creating and removing its temporary
\* file, the name it holds is a file it created, holding nothing but its
\* own upload; two such requests hold different names.
C10_OwnTempFile ==
    /\ \A r \in Requests :
          /\ temp_path[r] # 0 => temp_path[r] = temp_file[r]
          /\ pc[r] \in InTry /\ temp_file[r] # 0 =>
                /\ fs[temp_file[r]].owner = r
                /\ fs[temp_file[r]].data \in {0, r}
    /\ \A n \in Names : fs[n].data # 0 => fs[n].data = fs[n].owner
    /\ \A r1, r2 \in Requests :
          /\ r1 # r2
          /\ pc[r1] \in InTry /\ temp_file[r1] # 0
          /\ pc[r2] \in InTry /\ temp_file[r2] # 0
          => temp_file[r1] # temp_file[r2]

C10_Witness ==
    \E r1, r2 \in Requests :
        /\ r1 # r2
        /\ pc[r1] = "reading" /\ fs[temp_file[r1]].owner = r1
        /\ pc[r2] = "in_model" /\ fs[temp_path[r2]].owner = r2
        /\ temp_file[r1] # temp_path[r2]

\* C11: no step of any endpoint changes the model handle, so /health always
\* reports the value set at start, and a process that started without a
\* model ends every request with 503.
C11_ModelHandleFixed ==
    [][ /\ model' = model
        /\ auxResponse'.endpoint = "/health" =>
              auxResponse'.model_loaded = (model # None)
        /\ model = None =>
              \A r \in Requests :
                  pc[r] # "done" /\ pc'[r] = "done" => response'[r].status = 503 ]_vars

C11_Witness ==
    /\ model = None
    /\ auxResponse.endpoint = "/health" /\ auxResponse.model_loaded = FALSE
    /\ \A r \in Requests : Done(r) /\ response[r].status = 503

\* the model call of request r, if it made one, is over
ModelCallOver(r) ==
    modelCalls[r] = 1 => result[r].returned \/ exc[r] \in ModelErrors

\* C12: within a request the model, the language and the format are checked
\* in that order before the temporary file is created; the file is written
\* and closed before the model is called and is on storage during the call;
\* os.remove is called after the call is over and before the request ends.
C12_StepOrder ==
    /\ [](\A r \in Requests :
            /\ pc[r] = "check_language" => model # None
            /\ pc[r] = "check_format" =>
                  model # None /\ language[r] \in DOMAIN SUPPORTED_LANGUAGES
            /\ temp_file[r] # 0 \/ OwnFileExists(r) =>
                  /\ model # None
                  /\ language[r] \in DOMAIN SUPPORTED_LANGUAGES
                  /\ HasAllowedExtension(filename[r])
            /\ pc[r] = "in_model" =>
                  /\ temp_path[r] # 0
                  /\ fs[temp_path[r]] = [owner |-> r, data |-> r, closed |-> TRUE]
            /\ removeCalls[r] > 0 => pc[r] \in {"exit", "done"} /\ ModelCallOver(r)
            /\ Done(r) /\ modelCalls[r] = 1 => removeCalls[r] = 1)
    /\ [][\A r \in Requests :
            \/ removeCalls'[r] # removeCalls[r]
            \/ OwnFileExists(r) /\ ~OwnFileExists(r)'
            => pc[r] = "remove" /\ ModelCallOver(r) /\ pc'[r] = "exit"]_vars

C12_Witness ==
    \E r \in Requests :
        /\ Done(r) /\ modelCalls[r] = 1 /\ result[r].returned
        /\ removeCalls[r] = 1 /\ ~OwnFileExists(r)
        /\ response[r].status = 200

\* the place of each statement in the handler
Rank(label) ==
    CASE label = "idle" -> 0
      [] label = "check_model" -> 1
      [] label = "check_language" -> 2
      [] label = "check_format" -> 3
      [] label = "create_temp" -> 4
      [] label = "await_read" -> 5
      [] label = "reading" -> 6
      [] label = "write" -> 7
      [] label = "close" -> 8
      [] label = "transcribe" -> 9
      [] label = "in_model" -> 10
      [] label = "build" -> 11
      [] label = "except" -> 12
      [] label = "finally" -> 13
      [] label = "remove" -> 14
      [] label = "exit" -> 15
      [] label = "done" -> 16

\* C13: a request only moves forward through its statements, so it is at
\* each at most once, and every request received ends, unless a call of
\* model.transcribe never returns.
C13_TerminatesOnce ==
    /\ [][\A r \in Requests :
            pc'[r] # pc[r] => Rank(pc'[r]) > Rank(pc[r])]_vars
    /\ \A r \in Requests :
          (pc[r] # "idle") ~>
              (Done(r) \/ [](\E q \in Requests : pc[q] = "in_model"))

C13_Witness ==
    \E r \in Requests :
        /\ Done(r) /\ exc[r] \in ModelErrors /\ modelCalls[r] = 1
        /\ removeCalls[r] = 1 /\ response[r].status = 500

\* C14: a request that has ended called os.remove exactly when it had
\* created a temporary file, and one that created none ended with its
\* 400, 503 or 500.
C14_CleanupIffFileCreated ==
    \A r \in Requests :
        Done(r) =>
            /\ removeCalls[r] >= 1 <=> temp_file[r] # 0
            /\ temp_file[r] = 0 =>
                  response[r].handled /\ response[r].status \in {400, 503, 500}

\* the statements from the write of the temporary file to its deletion
WriteToRemove == {"write", "close", "transcribe", "in_model", "build",
                  "except", "finally", "remove"}

\* what belongs to request q
Local(q) ==
    <<pc[q], language[q], filename[q], file_ext[q], temp_file[q],
      temp_path[q], content[q], result[q], exc[q], pending[q], response[q],
      modelCalls[q], removeCalls[q], removeFailed[q]>>

\* C15: at most one request is inside model.transcribe, and while a request
\* is between the write of its temporary file and its deletion, the model
\* call included, no other request and no GET endpoint takes a step.
C15_SingleEventLoop ==
    /\ [](Cardinality({r \in Requests : pc[r] = "in_model"}) <= 1)
    /\ [][\A r \in Requests :
            pc[r] \in WriteToRemove =>
                /\ auxResponse' = auxResponse
                /\ \A q \in Requests \ {r} : Local(q)' = Local(q)
                /\ \A n \in Names : fs'[n] # fs[n] => fs[n].owner = r]_vars

C15_Witness ==
    \E r, q \in Requests :
        /\ r # q
        /\ pc[r] = "in_model"
        /\ pc[q] = "reading" /\ OwnFileExists(q)

====
